---- MODULE Spec2Model ----
(***************************************************************************)
(* Job application tracker (src/app.py): the content-addressed resume      *)
(* store (save_resume), the application registry (add_application, the     *)
(* search query, the welcome-page statistics) and the page handlers that   *)
(* compose them.                                                           *)
(*                                                                         *)
(* Text is a sequence of one-character strings, file content a sequence of *)
(* byte values, time a number of ticks since an epoch that starts at       *)
(* midnight.  The DuckDB table is the set of its rows (id is the primary   *)
(* key), the resume directory a function from the paths that exist to the  *)
(* files stored there.                                                     *)
(***************************************************************************)
EXTENDS Integers, Sequences, FiniteSets, TLC

VARIABLES
    files,      \* the directory RESUME_DIR: path -> file, for the paths that exist
    table,      \* the rows of table applications in DB_FILE
    now,        \* the wall clock, in ticks
    view,       \* what the last run of the script rendered
    stored,     \* history: what every returned call of save_resume returned
    pc,         \* concurrent sessions: each session's position in its run
    loc         \* concurrent sessions: each session's local variables

vars == <<files, table, now, view, stored, pc, loc>>

----------------------------------------------------------------------------
(* Bounds of the model *)

\* most rows the table holds in the store, form and query specifications
MaxRecords == 2
\* most rows the table holds in the statistics specification
MaxStatsRecords == 1
\* most rows the table holds in the concurrent specification
MaxConcRecords == 2
\* ticks of the clock in one calendar day
TicksPerDay == 2
\* days the clock runs in the statistics specification
MaxDays == 8
\* ticks the clock runs in the form and query specifications
MaxTicks == 1

(* Program constants *)

\* INTERVAL 7 DAY
RECENT_DAYS == 7

RESUME_DIR == "resumes/"

----------------------------------------------------------------------------
(* Input domains *)

\* an optional value is a sequence of at most one element; None is the empty one
None == <<>>
Some(x) == <<x>>

\* uuid4() draws from a pool; a repeated draw is possible
Uuids == {"u1", "u2", "u3"}

Contents == {<<0>>, <<0, 1>>}
FileNames == {"cv.pdf", "resume.pdf"}
UploadedFiles == [name : FileNames, bytes : Contents]

IoOutcomes == {"ok", "open_fails", "write_fails", "close_fails"}

Acme == <<"A", "b">>
Desc == <<"d">>
Role == <<"b">>
Blank == <<" ">>
Empty == <<>>

----------------------------------------------------------------------------
(* Text *)

\* str.lower() on one character, over the alphabet of the model
Lower(c) ==
    CASE c = "A" -> "a"
      [] c = "B" -> "b"
      [] OTHER -> c

RECURSIVE LikeMatch(_, _)
\* DuckDB's ILIKE: % matches any run of characters, _ any one character,
\* every other character itself, without regard to case
LikeMatch(p, s) ==
    IF p = <<>> THEN s = <<>>
    ELSE IF Head(p) = "%"
         THEN LikeMatch(Tail(p), s) \/ (s # <<>> /\ LikeMatch(p, Tail(s)))
         ELSE /\ s # <<>>
              /\ (Head(p) = "_" \/ Lower(Head(p)) = Lower(Head(s)))
              /\ LikeMatch(Tail(p), Tail(s))

ILike(s, p) == LikeMatch(p, s)

\* bool(x) of a form value: a str is true unless empty, an uploaded file is
\* true, None is false
Truthy(x) == x # <<>>

----------------------------------------------------------------------------
(* Resume store *)

RECURSIVE Digest(_)
\* the digest as a number: a function of the bytes alone, with no collisions
\* on byte values 0 and 1
Digest(file_bytes) ==
    IF file_bytes = <<>> THEN 1
    ELSE 3 * Digest(SubSeq(file_bytes, 1, Len(file_bytes) - 1))
         + file_bytes[Len(file_bytes)] + 1

\* hashlib.sha256(file_bytes).hexdigest(): the digest written out as text
hash_file(file_bytes) == ToString(Digest(file_bytes))

\* os.path.join(RESUME_DIR, f"{h}.zip")
ResumeFile(h) == <<RESUME_DIR, h, ".zip">>

\* os.path.exists(path)
Exists(fs, path) == path \in DOMAIN fs

\* the file a closed ZipFile with one writestr(name, data) leaves
ZipArchive(name, data) ==
    [complete |-> TRUE, entries |-> <<[name |-> name, data |-> data]>>]

\* the file ZipFile(path, 'w') creates (or truncates to) before anything is written
ZipOpened == [complete |-> FALSE, entries |-> <<>>]

\* the file after writestr and before close: the entry without the central directory
ZipWritten(name, data) ==
    [complete |-> FALSE, entries |-> <<[name |-> name, data |-> data]>>]

Put(fs, path, file) ==
    [p \in DOMAIN fs \cup {path} |-> IF p = path THEN file ELSE fs[p]]

\* save_resume keyed by the uploaded file's name instead of its digest
SaveResumeByName(fs, file, io) ==
    LET h == hash_file(file.bytes)
        resume_file == ResumeFile(file.name)
    IN  IF ~Exists(fs, resume_file) /\ io = "ok"
        THEN [raised |-> FALSE, h |-> h, path |-> resume_file,
              fs |-> Put(fs, resume_file, ZipArchive(file.name, file.bytes))]
        ELSE [raised |-> FALSE, h |-> h, path |-> resume_file, fs |-> fs]

\* save_resume(file); io is what the storage medium does if the archive is written
save_resume(fs, file, io) ==
    LET file_bytes == file.bytes
        h == hash_file(file_bytes)
        resume_file == ResumeFile(h)
    IN  IF ~Exists(fs, resume_file)
        THEN CASE io = "ok" ->
                    [raised |-> FALSE, h |-> h, path |-> resume_file,
                     fs |-> Put(fs, resume_file, ZipArchive(file.name, file_bytes))]
               [] io = "open_fails" ->
                    [raised |-> TRUE, h |-> h, path |-> resume_file, fs |-> fs]
               [] io = "write_fails" ->
                    [raised |-> TRUE, h |-> h, path |-> resume_file,
                     fs |-> Put(fs, resume_file, ZipOpened)]
               [] io = "close_fails" ->
                    [raised |-> TRUE, h |-> h, path |-> resume_file,
                     fs |-> Put(fs, resume_file, ZipWritten(file.name, file_bytes))]
        ELSE [raised |-> FALSE, h |-> h, path |-> resume_file, fs |-> fs]

\* the resume download of the search page: the file's bytes, or "not found"
Retrieve(fs, path) == IF Exists(fs, path) THEN Some(fs[path]) ELSE None

----------------------------------------------------------------------------
(* Application registry *)

\* CREATE OR REPLACE TABLE applications
DbInitReplace(disk) == {}

\* duckdb.connect(DB_FILE) and CREATE TABLE IF NOT EXISTS applications, on the
\* table DB_FILE holds (None: a new file)
DbInit(disk) == IF disk = None THEN {} ELSE disk[1]

Ids(rows) == {r.id : r \in rows}

\* the row add_application inserts
NewRow(id, company, job_title, jd, upload_date, resume_hash, resume_path) ==
    [id |-> id, company |-> company, job_title |-> job_title,
     job_description |-> jd, upload_date |-> upload_date,
     resume_hash |-> resume_hash, resume_path |-> resume_path]

\* add_application: the INSERT; a repeated primary key raises and inserts nothing
add_application(rows, id, company, job_title, jd, at, resume_hash, resume_path) ==
    IF id \in Ids(rows)
    THEN [raised |-> TRUE, rows |-> rows]
    ELSE [raised |-> FALSE,
          rows |-> rows \cup {NewRow(id, company, job_title, jd, at,
                                     resume_hash, resume_path)}]

\* WHERE 1=1 [AND company ILIKE ?] [AND job_title ILIKE ?] with the parameters
\* f"%{company_filter}%" and f"%{role_filter}%"; a filter that is empty adds nothing
Where(r, company_filter, role_filter) ==
    /\ (Truthy(company_filter) =>
            ILike(r.company, <<"%">> \o company_filter \o <<"%">>))
    /\ (Truthy(role_filter) =>
            ILike(r.job_title, <<"%">> \o role_filter \o <<"%">>))

Select(rows, company_filter, role_filter) ==
    {r \in rows : Where(r, company_filter, role_filter)}

Orderings(rows) ==
    {f \in [1..Cardinality(rows) -> rows] :
        \A i, j \in 1..Cardinality(rows) : i # j => f[i] # f[j]}

\* ORDER BY upload_date ASC
OrderByUploadDateAsc(rows) ==
    {f \in Orderings(rows) :
        \A i, j \in DOMAIN f : i < j => f[i].upload_date <= f[j].upload_date}

\* ORDER BY upload_date DESC: every order of the rows the key allows; the query
\* names no further key, so rows with equal upload_date come in any order
OrderByUploadDateDesc(rows) ==
    {f \in Orderings(rows) :
        \A i, j \in DOMAIN f : i < j => f[i].upload_date >= f[j].upload_date}

\* SELECT COUNT(DISTINCT company) in the place of COUNT(*)
TotalAppsDistinct(rows) == Cardinality({r.company : r \in rows})

\* SELECT COUNT(*) FROM applications
TotalApps(rows) == Cardinality(rows)

\* SELECT COUNT(DISTINCT company) FROM applications
Companies(rows) == Cardinality({r.company : r \in rows})

\* CURRENT_DATE as a timestamp: midnight of the day of t
CurrentDate(t) == t - (t % TicksPerDay)

\* upload_date >= now() - INTERVAL 7 DAY
RecentCountFromNow(rows, t) ==
    Cardinality({r \in rows : r.upload_date >= t - RECENT_DAYS * TicksPerDay})

\* SELECT COUNT(*) FROM applications WHERE upload_date >= CURRENT_DATE - INTERVAL 7 DAY
RecentCount(rows, t) ==
    Cardinality({r \in rows :
        r.upload_date >= CurrentDate(t) - RECENT_DAYS * TicksPerDay})

----------------------------------------------------------------------------
(* Page handlers.  Streamlit runs the whole script for every interaction, so *)
(* each handler starts with the module-level code (DB INIT) and then renders *)
(* one page.  The welcome page's list of the five latest rows is display     *)
(* only and is left out of the view.                                         *)

\* the table after the module-level code of this run
Connected == DbInit(Some(table))

\* the submit page with the form submitted: all([company, job_title, jd, cv]),
\* then save_resume, then add_application
SubmitPage(company, job_title, jd, cv, io, id, cap) ==
    LET form == [company |-> company, job_title |-> job_title, jd |-> jd, cv |-> cv]
        valid == Truthy(company) /\ Truthy(job_title) /\ Truthy(jd) /\ Truthy(cv)
    IN  /\ valid => Cardinality(table) < cap
        /\ IF valid
           THEN LET s == save_resume(files, cv[1], io)
                    a == add_application(Connected, id, company, job_title, jd, now,
                                         s.h, s.path)
                IN  /\ files' = s.fs
                    /\ IF s.raised
                       THEN /\ view' = [page |-> "submit", outcome |-> "error",
                                        form |-> form]
                            /\ table' = Connected
                            /\ UNCHANGED stored
                       ELSE /\ stored' = stored \cup
                                   {[bytes |-> cv[1].bytes, name |-> cv[1].name,
                                     h |-> s.h, path |-> s.path]}
                            /\ table' = a.rows
                            /\ view' = [page |-> "submit",
                                        outcome |-> IF a.raised THEN "error"
                                                                ELSE "saved",
                                        form |-> form]
           ELSE /\ view' = [page |-> "submit", outcome |-> "invalid", form |-> form]
                /\ table' = Connected
                /\ UNCHANGED <<files, stored>>
        /\ UNCHANGED <<now, pc, loc>>

\* the search page: the query, and for each row the resume download
SearchPage(company_filter, role_filter) ==
    /\ \E results \in OrderByUploadDateDesc(
                        Select(Connected, company_filter, role_filter)) :
          view' = [page |-> "search",
                   company_filter |-> company_filter,
                   role_filter |-> role_filter,
                   results |-> results,
                   downloads |-> [i \in DOMAIN results |->
                                    Retrieve(files, results[i].resume_path)]]
    /\ table' = Connected
    /\ UNCHANGED <<files, now, stored, pc, loc>>

\* the welcome page: the statistics, the last two shown when there are rows
WelcomePage ==
    /\ view' = IF TotalApps(Connected) > 0
               THEN [page |-> "welcome", at |-> now,
                     total_apps |-> TotalApps(Connected),
                     companies |-> Companies(Connected),
                     recent_count |-> RecentCount(Connected, now)]
               ELSE [page |-> "welcome", at |-> now,
                     total_apps |-> TotalApps(Connected)]
    /\ table' = Connected
    /\ UNCHANGED <<files, now, stored, pc, loc>>

\* the process ends and starts again: the module-level code runs on what is
\* on disk, and nothing is rendered yet
Restart ==
    /\ table' = Connected
    /\ view' = [page |-> "start"]
    /\ UNCHANGED <<files, now, stored, pc, loc>>

\* time passes
Tick(cap) ==
    /\ now < cap
    /\ now' = now + 1
    /\ UNCHANGED <<files, table, view, stored, pc, loc>>

----------------------------------------------------------------------------
(* Concurrent sessions: every session runs the script in a thread of its own, *)
(* and a step is one call into the file system or the database               *)

Sessions == {"s1", "s2", "s3"}

NoLocals == [cv |-> None, rows |-> <<>>, i |-> 0, downloads |-> <<>>]

InSubmit == {"check", "open", "write", "close", "insert"}

Goto(s, label) == pc' = [pc EXCEPT ![s] = label]

\* a run starts (DB INIT); the submit page, form valid: save_resume has read
\* the upload and hashed it
BeginSubmit(s, cv, cap) ==
    /\ pc[s] = "idle"
    /\ Cardinality(table) + Cardinality({t \in Sessions : pc[t] \in InSubmit}) < cap
    /\ loc' = [loc EXCEPT ![s] = [NoLocals EXCEPT !.cv = Some(cv)]]
    /\ Goto(s, "check")
    /\ table' = Connected
    /\ UNCHANGED <<files, now, view, stored>>

\* save_resume: if not os.path.exists(resume_file); if it exists, return
CheckExists(s) ==
    LET cv == loc[s].cv[1]
        h == hash_file(cv.bytes)
        resume_file == ResumeFile(h)
    IN  /\ pc[s] = "check"
        /\ IF Exists(files, resume_file)
           THEN /\ stored' = stored \cup
                       {[bytes |-> cv.bytes, name |-> cv.name,
                         h |-> h, path |-> resume_file]}
                /\ Goto(s, "insert")
           ELSE /\ Goto(s, "open")
                /\ UNCHANGED stored
        /\ UNCHANGED <<files, table, now, view, loc>>

\* save_resume: zipfile.ZipFile(resume_file, 'w') creates the file or truncates it
OpenZip(s) ==
    LET resume_file == ResumeFile(hash_file(loc[s].cv[1].bytes))
    IN  /\ pc[s] = "open"
        /\ files' = Put(files, resume_file, ZipOpened)
        /\ Goto(s, "write")
        /\ UNCHANGED <<table, now, view, stored, loc>>

\* save_resume: zipf.writestr(file.name, file_bytes)
WriteStr(s) ==
    LET cv == loc[s].cv[1]
        resume_file == ResumeFile(hash_file(cv.bytes))
    IN  /\ pc[s] = "write"
        /\ files' = Put(files, resume_file, ZipWritten(cv.name, cv.bytes))
        /\ Goto(s, "close")
        /\ UNCHANGED <<table, now, view, stored, loc>>

\* save_resume: the with block closes the archive, and save_resume returns.
\* The archive is whole if the file holds the entry this session wrote; if
\* another session truncated or rewrote it meanwhile it stays incomplete.
CloseZip(s) ==
    LET cv == loc[s].cv[1]
        h == hash_file(cv.bytes)
        resume_file == ResumeFile(h)
    IN  /\ pc[s] = "close"
        /\ files' = Put(files, resume_file,
                        IF files[resume_file] = ZipWritten(cv.name, cv.bytes)
                        THEN ZipArchive(cv.name, cv.bytes)
                        ELSE [files[resume_file] EXCEPT !.complete = FALSE])
        /\ stored' = stored \cup
               {[bytes |-> cv.bytes, name |-> cv.name, h |-> h, path |-> resume_file]}
        /\ Goto(s, "insert")
        /\ UNCHANGED <<table, now, view, loc>>

\* add_application, and the run ends
Insert(s, id) ==
    LET cv == loc[s].cv[1]
        h == hash_file(cv.bytes)
    IN  /\ pc[s] = "insert"
        /\ table' = add_application(table, id, Acme, Role, Desc, now,
                                    h, ResumeFile(h)).rows
        /\ Goto(s, "idle")
        /\ UNCHANGED <<files, now, view, stored, loc>>

\* a run starts (DB INIT); the search page without filters: the query
BeginSearch(s) ==
    /\ pc[s] = "idle"
    /\ \E rows \in OrderByUploadDateDesc(Select(Connected, Empty, Empty)) :
          /\ loc' = [loc EXCEPT ![s] = [NoLocals EXCEPT !.rows = rows, !.i = 1]]
          /\ Goto(s, IF rows = <<>> THEN "idle" ELSE "rows")
    /\ table' = Connected
    /\ UNCHANGED <<files, now, view, stored>>

\* the search page, row i: if os.path.exists(row[6]); if not, "not found"
RowExists(s) ==
    LET l == loc[s]
    IN  /\ pc[s] = "rows"
        /\ IF Exists(files, l.rows[l.i].resume_path)
           THEN /\ Goto(s, "read")
                /\ UNCHANGED loc
           ELSE /\ loc' = [loc EXCEPT ![s].downloads = Append(@, None),
                                      ![s].i = @ + 1]
                /\ Goto(s, IF l.i = Len(l.rows) THEN "idle" ELSE "rows")
        /\ UNCHANGED <<files, table, now, view, stored>>

\* the search page, row i: open(row[6], "rb") and f.read()
RowRead(s) ==
    LET l == loc[s]
    IN  /\ pc[s] = "read"
        /\ loc' = [loc EXCEPT
                     ![s].downloads = Append(@, Retrieve(files, l.rows[l.i].resume_path)),
                     ![s].i = @ + 1]
        /\ Goto(s, IF l.i = Len(l.rows) THEN "idle" ELSE "rows")
        /\ UNCHANGED <<files, table, now, view, stored>>

----------------------------------------------------------------------------
(* Specifications *)

Init ==
    /\ files = <<>>
    /\ table = DbInit(None)
    /\ now = 0
    /\ view = [page |-> "start"]
    /\ stored = {}
    /\ pc = [s \in Sessions |-> "idle"]
    /\ loc = [s \in Sessions |-> NoLocals]

Uploads == {None} \cup {Some(f) : f \in UploadedFiles}

\* the resume store: uploads and storage outcomes vary, the text is fixed
NextStore ==
    \/ \E cv \in Uploads, io \in IoOutcomes, id \in Uuids :
          SubmitPage(Acme, Role, Desc, cv, io, id, MaxRecords)
    \/ SearchPage(Empty, Empty)
    \/ WelcomePage
    \/ Restart

SpecStore == Init /\ [][NextStore]_vars

TheUpload == [name |-> "cv.pdf", bytes |-> <<0>>]

\* the submit form: all filled, or one text field empty or blank, or no upload
Forms ==
    {<<Acme, Role, Desc, Some(TheUpload)>>, <<Acme, Role, Desc, None>>}
    \cup {<<x, Role, Desc, Some(TheUpload)>> : x \in {Empty, Blank}}
    \cup {<<Acme, x, Desc, Some(TheUpload)>> : x \in {Empty, Blank}}
    \cup {<<Acme, Role, x, Some(TheUpload)>> : x \in {Empty, Blank}}

NextForm ==
    \/ \E f \in Forms, id \in Uuids :
          SubmitPage(f[1], f[2], f[3], f[4], "ok", id, MaxRecords)
    \/ SearchPage(Empty, Empty)
    \/ WelcomePage
    \/ Restart
    \/ Tick(MaxTicks)

SpecForm == Init /\ [][NextForm]_vars

\* the search page: companies, job titles and both filters vary
QueryCompanies == {Acme, <<"a">>}
QueryTitles == {Role, <<"B", "a">>}
CompanyFilters == {Empty, <<"a">>, <<"%">>, <<"_">>}
RoleFilters == {Empty, <<"A">>}

NextQuery ==
    \/ \E c \in QueryCompanies, t \in QueryTitles, id \in Uuids :
          SubmitPage(c, t, Desc, Some(TheUpload), "ok", id, MaxRecords)
    \/ \E cf \in CompanyFilters, rf \in RoleFilters : SearchPage(cf, rf)
    \/ WelcomePage
    \/ Restart
    \/ Tick(MaxTicks)

SpecQuery == Init /\ [][NextQuery]_vars

\* the statistics: submissions and calls at every time of day over MaxDays days
NextStats ==
    \/ \E id \in Uuids :
          SubmitPage(Acme, Role, Desc, Some(TheUpload), "ok", id, MaxStatsRecords)
    \/ WelcomePage
    \/ Restart
    \/ Tick(MaxDays * TicksPerDay)

SpecStats == Init /\ [][NextStats]_vars

\* concurrent sessions upload the same bytes, under either name, and search
ConcUploads == {[name |-> n, bytes |-> <<0>>] : n \in FileNames}

NextConc ==
    \E s \in Sessions :
        \/ \E cv \in ConcUploads : BeginSubmit(s, cv, MaxConcRecords)
        \/ CheckExists(s)
        \/ OpenZip(s)
        \/ WriteStr(s)
        \/ CloseZip(s)
        \/ \E id \in Uuids : Insert(s, id)
        \/ BeginSearch(s)
        \/ RowExists(s)
        \/ RowRead(s)

SpecConc == Init /\ [][NextConc]_vars

----------------------------------------------------------------------------
(* Properties *)

\* the archive files named for digest h: RESUME_DIR/{h}.zip
ArchivesNamed(h) == {p \in DOMAIN files : p[2] = h}

\* the files that hold an entry with the bytes b
ArchivesHolding(b) ==
    {p \in DOMAIN files :
        \E i \in DOMAIN files[p].entries : files[p].entries[i].data = b}

\* C1: any two returned calls of save_resume with the same bytes returned the
\* same content hash and the same archive path, whatever the file names, and
\* after a returned call exactly one archive file is named for that hash and
\* at most one file holds those bytes.
C1_DedupIdempotent ==
    /\ \A s, t \in stored :
          s.bytes = t.bytes => s.h = t.h /\ s.path = t.path
    /\ \A s \in stored :
          /\ Cardinality(ArchivesNamed(s.h)) = 1
          /\ Cardinality(ArchivesHolding(s.bytes)) <= 1

C1_Witness ==
    \E s, t \in stored : s.bytes = t.bytes /\ s.name # t.name

\* C2: no partial archive remains after a failed save_resume: every path of
\* the resume directory that exists holds a complete archive, so no later
\* save_resume of the same bytes returns a path that holds an incomplete file.
C2_NoPartialArchive ==
    \A p \in DOMAIN files : files[p].complete

\* C8: for every returned save_resume(b, f), the download of the returned path
\* is an archive with a single entry whose bytes are b.
C8_RoundTrip ==
    \A s \in stored :
        LET got == Retrieve(files, s.path)
        IN  /\ got # None
            /\ got[1].complete
            /\ Len(got[1].entries) = 1
            /\ got[1].entries[1].data = s.bytes

RECURSIVE Strip(_)
\* the text without its leading and trailing blanks
Strip(s) ==
    IF s = <<>> THEN s
    ELSE IF Head(s) = " " THEN Strip(Tail(s))
    ELSE IF s[Len(s)] = " " THEN Strip(SubSeq(s, 1, Len(s) - 1))
    ELSE s

\* C3: a submission whose company, job title or job description is empty
\* after trimming is rejected as invalid and leaves the table as it was.
C3_BlankRejected ==
    [][(/\ view'.page = "submit"
        /\ now' = now
        /\ \/ Strip(view'.form.company) = <<>>
           \/ Strip(view'.form.job_title) = <<>>
           \/ Strip(view'.form.jd) = <<>>)
       => (view'.outcome = "invalid" /\ table' = table)]_vars

\* C5: a submission that reports success has its row in the table, stamped
\* with the instant of the call, and every row of the table is in every
\* result of the unfiltered query after any step (a submission, a search,
\* the statistics, a restart), with all its fields.
C5_Durable ==
    [][/\ (view'.page = "submit" /\ now' = now /\ view'.outcome = "saved") =>
            \E r \in table' :
                /\ r \notin table
                /\ r.company = view'.form.company
                /\ r.job_title = view'.form.job_title
                /\ r.job_description = view'.form.jd
                /\ r.upload_date = now
       /\ \A q \in OrderByUploadDateDesc(Select(table', Empty, Empty)) :
            \A r \in table : \E i \in DOMAIN q : q[i] = r]_vars

C5_Witness == view.page = "start" /\ Cardinality(table) = MaxRecords

LowerText(s) == [i \in DOMAIN s |-> Lower(s[i])]

\* sub occurs in s as a literal run of characters, without regard to case
ContainsNoCase(s, sub) ==
    \E k \in 1..(Len(s) - Len(sub) + 1) :
        SubSeq(LowerText(s), k, k + Len(sub) - 1) = LowerText(sub)

Range(q) == {q[i] : i \in DOMAIN q}

\* C4: the search returns exactly the rows whose company contains the company
\* filter and whose job title contains the role filter, each as a literal
\* substring without regard to case (an empty filter is contained in every
\* text), for every filter, '%' and '_' included.
C4_LiteralSubstring ==
    view.page = "search" =>
        Range(view.results) =
            {r \in table : /\ ContainsNoCase(r.company, view.company_filter)
                           /\ ContainsNoCase(r.job_title, view.role_filter)}

SortedByDateDesc(q) ==
    \A i, j \in DOMAIN q : i < j => q[i].upload_date >= q[j].upload_date

\* C6 (as amended): the rows the search returns are ordered by upload_date
\* descending: no row comes before a row with a strictly later upload_date.
C6_Descending ==
    view.page = "search" => SortedByDateDesc(view.results)

C6_Witness ==
    /\ view.page = "search"
    /\ Len(view.results) >= 2
    /\ view.results[1].upload_date > view.results[2].upload_date

\* C6 (as claimed): the rows the search returns are ordered by upload_date
\* descending, and a search repeated with the same filters on the same table
\* returns the rows in the same order.
C6_DescendingDeterministic ==
    [][/\ view'.page = "search" => SortedByDateDesc(view'.results)
       /\ (/\ view.page = "search"
           /\ view'.page = "search"
           /\ view'.company_filter = view.company_filter
           /\ view'.role_filter = view.role_filter
           /\ table' = table)
          => view'.results = view.results]_vars

\* C10: the total the statistics count equals the length of every result of
\* the search without filters.
C10_TotalIsQueryLength ==
    \A q \in OrderByUploadDateDesc(Select(table, Empty, Empty)) :
        Len(q) = TotalApps(table)

C10_Witness ==
    /\ view.page = "welcome"
    /\ view.total_apps = MaxRecords
    /\ Companies(table) < MaxRecords

\* the age of a row at instant t
Age(r, t) == t - r.upload_date

\* C9 (as amended): the recent count is the number of rows submitted at or
\* after the midnight that starts the day of the call, less 7 days: the rows
\* no older than 7 days plus the time elapsed since that midnight.  A row 8
\* days old or older is never counted, a row at most 7 days old always is.
C9_RecentSinceMidnight ==
    (view.page = "welcome" /\ view.total_apps > 0) =>
        /\ view.recent_count =
              Cardinality({r \in table :
                  Age(r, view.at) <= RECENT_DAYS * TicksPerDay
                                     + (view.at % TicksPerDay)})
        /\ view.recent_count >=
              Cardinality({r \in table :
                  Age(r, view.at) <= RECENT_DAYS * TicksPerDay})
        /\ view.recent_count <=
              Cardinality({r \in table :
                  Age(r, view.at) < (RECENT_DAYS + 1) * TicksPerDay})

C9_Witness ==
    /\ view.page = "welcome"
    /\ view.total_apps > 0
    /\ view.at % TicksPerDay # 0
    /\ \E r \in table : Age(r, view.at) > RECENT_DAYS * TicksPerDay
    /\ view.recent_count = Cardinality(table)

\* C9 (as claimed): the recent count is the number of rows submitted within
\* the 7 days (7 x 24 hours) before the instant of the call.
C9_RecentTrailing7Days ==
    (view.page = "welcome" /\ view.total_apps > 0) =>
        view.recent_count =
            Cardinality({r \in table :
                Age(r, view.at) <= RECENT_DAYS * TicksPerDay})

\* C7: with sessions that upload the same bytes and download concurrently, at
\* most one archive file exists for the hash of every returned save_resume,
\* and every download that found the path present read a complete archive.
C7_NoHalfWrittenRead ==
    /\ \A st \in stored : Cardinality(ArchivesNamed(st.h)) = 1
    /\ \A s \in Sessions :
          \A i \in DOMAIN loc[s].downloads :
              loc[s].downloads[i] # None => loc[s].downloads[i][1].complete

====
